---- MODULE Spec2Model ----
(***************************************************************************)
(* LangchainAgent (crewai/agents/Third_Party_Agents/langchain_custom/      *)
(* agent.py): the adapter that maps a crewAI agent onto a                  *)
(* CrewAgentExecutor.  The model covers the set_agent_executor validator,  *)
(* create_agent_executor, _parse_tools, __tools_names and execute_task,    *)
(* the latter step by step so that overlapping calls can be interleaved.   *)
(*                                                                         *)
(* Python values are encoded as follows.  An Optional[list] is a record    *)
(* [kind, items] with kind "None" or "list" (other kinds stand for values  *)
(* that are not lists, such as a tuple).  Object handles (llm, crew, i18n, *)
(* callbacks, ...) are strings, "None" being None.  An Optional[int] is a  *)
(* record [type, v].  A str that the code takes apart (response_template)  *)
(* is a record [kind, items] whose items are tokens.                       *)
(***************************************************************************)
EXTENDS Integers, Sequences, FiniteSets, TLC

\* ------------------------------------------------------------------ bounds
MaxTools == 2          \* longest tool list drawn
MaxCallbacks == 2      \* longest llm.callbacks list drawn
MaxValidations == 3    \* validator runs in one behaviour
MaxCreates == 2        \* direct create_agent_executor calls in one behaviour
MaxCalls == 2          \* execute_task calls in one behaviour

\* ------------------------------------------------------------ Python values
PyNone == [kind |-> "None", items |-> <<>>]
PyList(s) == [kind |-> "list", items |-> s]
PyTuple(s) == [kind |-> "tuple", items |-> s]

\* isinstance(x, list)
IsList(x) == x.kind = "list"

\* bool(x) of an Optional[list] / Optional[str]: None and the empty value are falsy
Truthy(x) == x.kind # "None" /\ x.items # <<>>

\* `a or b`
Or(a, b) == IF Truthy(a) THEN a ELSE b

NoneInt == [type |-> "NoneType", v |-> 0]
PyInt(n) == [type |-> "int", v |-> n]

SeqsUpTo(S, n) == UNION {[1..k -> S] : k \in 0..n}

Ok(v) == [status |-> "ok", value |-> v, exc |-> "none", origin |-> "none"]
Raise(type, origin) == [status |-> "raise", value |-> <<>>, exc |-> type, origin |-> origin]

\* -------------------------------------------------------------------- tools
\* A tool object: its name, its class, and what its to_langchain() does when
\* it is a crewai_tools BaseTool ("ok": returns the converted tool; otherwise
\* the exception it raises).
PlainTool == [name |-> "search", cls |-> "LangchainTool", conv |-> "n/a"]
CrewTool == [name |-> "scrape", cls |-> "CrewAITool", conv |-> "ok"]
CrewToolLazy == [name |-> "lazy", cls |-> "CrewAITool", conv |-> "ModuleNotFoundError"]
CrewToolBad == [name |-> "bad", cls |-> "CrewAITool", conv |-> "ValueError"]

Tools == {PlainTool, CrewTool, CrewToolLazy, CrewToolBad}

\* isinstance(tool, CrewAITool)
IsCrewAITool(tool) == tool.cls = "CrewAITool"

\* tool.to_langchain() when it returns
to_langchain(tool) == [name |-> tool.name, cls |-> "StructuredTool", conv |-> "n/a"]

\* The try-body loop of _parse_tools (lines 237-241) from index i on, acc being
\* tools_list so far.  The result carries tools_list as it stands when the
\* loop ends or an exception leaves it.
RECURSIVE ParseLoop(_, _, _)
ParseLoop(items, i, acc) ==
    IF i > Len(items) THEN Ok(acc)
    ELSE LET tool == items[i] IN
         IF IsCrewAITool(tool)
         THEN IF tool.conv = "ok"
              THEN ParseLoop(items, i + 1, Append(acc, to_langchain(tool)))
              ELSE [Raise(tool.conv, "tool") EXCEPT !.value = acc]
         ELSE ParseLoop(items, i + 1, Append(acc, tool))

\* The except-body loop of _parse_tools (lines 243-244): appends every tool
\* to tools_list as it stands.
FallbackLoop(tools, acc) ==
    IF tools.kind = "None"
    THEN Raise("TypeError", "adapter")
    ELSE Ok(acc \o tools.items)

\* _parse_tools(tools), with `installed` telling whether crewai_tools can be
\* imported.  The field `caught` names the exception the except clause
\* swallowed and where it came from.
_parse_tools(tools, installed) ==
    IF ~installed
    THEN \* the import raises ModuleNotFoundError, handled at line 242
         FallbackLoop(tools, <<>>) @@ [caught |-> "import"]
    ELSE IF tools.kind = "None"
    THEN Raise("TypeError", "adapter") @@ [caught |-> "none"]
    ELSE LET r == ParseLoop(tools.items, 1, <<>>) IN
         IF r.status = "raise" /\ r.exc = "ModuleNotFoundError"
         THEN FallbackLoop(tools, r.value) @@ [caught |-> r.origin]
         ELSE r @@ [caught |-> "none"]

\* __tools_names(tools): ", ".join([t.name for t in tools])
RECURSIVE Join(_)
Join(names) ==
    IF names = <<>> THEN ""
    ELSE IF Len(names) = 1 THEN names[1]
    ELSE names[1] \o ", " \o Join(Tail(names))

__tools_names(tools) == Join([i \in 1..Len(tools) |-> tools[i].name])

\* render_text_description(tools) of langchain: opaque, a value of the list
render_text_description(tools) == [rendered |-> tools]

\* ------------------------------------------------------------------ strings
\* A template is a record [kind, items]; its items are tokens, the token
\* Marker standing for the substring "{{ .Response }}" and " " for whitespace.
Marker == "{{ .Response }}"
PyStr(s) == [kind |-> "str", items |-> s]

\* str.split(sep): the segments between the occurrences of sep
RECURSIVE SplitFrom(_, _, _, _)
SplitFrom(items, sep, cur, out) ==
    IF items = <<>> THEN Append(out, cur)
    ELSE IF Head(items) = sep
         THEN SplitFrom(Tail(items), sep, <<>>, Append(out, cur))
         ELSE SplitFrom(Tail(items), sep, Append(cur, Head(items)), out)

Split(items, sep) == SplitFrom(items, sep, <<>>, <<>>)

\* str.strip(): leading and trailing whitespace removed
RECURSIVE LStrip(_)
LStrip(s) == IF s # <<>> /\ Head(s) = " " THEN LStrip(Tail(s)) ELSE s

RECURSIVE RStrip(_)
RStrip(s) == IF s # <<>> /\ s[Len(s)] = " " THEN RStrip(SubSeq(s, 1, Len(s) - 1)) ELSE s

Strip(s) == RStrip(LStrip(s))

\* stop_words of create_agent_executor (lines 211-216): an outcome whose
\* value is the list, or the IndexError of `split(...)[1]` on a template
\* without the marker.
stop_words(a) ==
    LET base == <<PyStr(<<a.i18n, "observation">>)>> IN
    IF Truthy(a.response_template)
    THEN LET parts == Split(a.response_template.items, Marker) IN
         IF Len(parts) < 2
         THEN Raise("IndexError", "adapter")
         ELSE Ok(Append(base, PyStr(Strip(parts[2]))))
    ELSE Ok(base)

\* ------------------------------------------------------------------- agents
Agents == {"a1", "a2"}
LLMs == {"llm1", "llm2"}

\* The fields of a LangchainAgent (lines 26-59 and those of BaseAgent that
\* the methods read), with the values a default construction leaves.
DefaultAgent(id) ==
    [ role |-> "role_" \o id, goal |-> "goal_" \o id, backstory |-> "backstory_" \o id,
      llm |-> "llm1",
      function_calling_llm |-> "None",
      i18n |-> "i18n_en",
      crew |-> "None",
      crew_memory |-> FALSE,
      verbose |-> FALSE,
      max_iter |-> 25,
      max_execution_time |-> NoneInt,
      step_callback |-> "None",
      tools_handler |-> "tools_handler",
      callbacks |-> "None",
      tools |-> PyList(<<>>),
      max_rpm |-> NoneInt,
      rpm_controller |-> "None",
      system_template |-> PyNone,
      prompt_template |-> PyNone,
      response_template |-> PyNone,
      cache_handler |-> "None",
      agent_executor |-> <<>> ]

\* agent_args of create_agent_executor (lines 166-173): the four lambdas
agent_args(self) ==
    [ input |-> "x[input]", tools |-> "x[tools]", tool_names |-> "x[tool_names]",
      agent_scratchpad |-> "format_log_to_str:" \o self ]

\* (a variant that hands the agent's llm over as the function-calling llm)
executor_args_one_llm(self, a, tools, parsed) ==
    [ llm |-> a.llm,
      i18n |-> a.i18n,
      crew |-> a.crew,
      crew_agent |-> self,
      tools |-> parsed,
      verbose |-> a.verbose,
      original_tools |-> tools,
      handle_parsing_errors |-> TRUE,
      max_iterations |-> a.max_iter,
      max_execution_time |-> a.max_execution_time,
      step_callback |-> a.step_callback,
      tools_handler |-> a.tools_handler,
      function_calling_llm |-> a.llm,
      callbacks |-> a.callbacks,
      request_within_rpm_limit |->
          IF a.rpm_controller # "None"
          THEN "check_or_wait:" \o a.rpm_controller
          ELSE "absent" ]

\* executor_args of create_agent_executor (lines 175-195)
executor_args(self, a, tools, parsed) ==
    [ llm |-> a.llm,
      i18n |-> a.i18n,
      crew |-> a.crew,
      crew_agent |-> self,
      tools |-> parsed,
      verbose |-> a.verbose,
      original_tools |-> tools,
      handle_parsing_errors |-> TRUE,
      max_iterations |-> a.max_iter,
      max_execution_time |-> a.max_execution_time,
      step_callback |-> a.step_callback,
      tools_handler |-> a.tools_handler,
      function_calling_llm |-> a.function_calling_llm,
      callbacks |-> a.callbacks,
      request_within_rpm_limit |->
          IF a.rpm_controller # "None"
          THEN "check_or_wait:" \o a.rpm_controller
          ELSE "absent" ]

\* Prompts(...).task_execution().partial(...) (lines 197-209): opaque, a value
\* of what it is given
execution_prompt(a, tools) ==
    [ i18n |-> a.i18n, tools |-> tools,
      system_template |-> a.system_template,
      prompt_template |-> a.prompt_template,
      response_template |-> a.response_template,
      goal |-> a.goal, role |-> a.role, backstory |-> a.backstory ]

\* The CrewAgentExecutor built at lines 220-223: the constructor's arguments
\* (args, inner_agent) and the attributes execute_task assigns afterwards.
\* CrewAgentExecutor.tools starts as the constructor's `tools`.  id is the
\* object's identity and invocations counts its invoke() calls.
CrewAgentExecutor(inner, args) ==
    [ id |-> 0,
      invocations |-> 0,
      args |-> args,
      inner_agent |-> inner,
      tools |-> args.tools,
      task |-> "None",
      tools_description |-> render_text_description(<<>>),
      tools_names |-> "" ]

\* (a variant without the fallback to the agent's own tools)
effective_tools_as_given(a, tools) == tools

\* The effective tool list of create_agent_executor (line 164)
effective_tools(a, tools) == Or(tools, a.tools)

\* create_agent_executor(tools) on agent `self` whose fields are `a`: the
\* outcome of the call, its value being <<executor>> when one was built.
\* _parse_tools (line 180) runs before stop_words (lines 211-216).  Prompts,
\* llm.bind and the constructors are taken to return.
create_outcome(self, a, tools_arg, installed) ==
    LET tools == effective_tools(a, tools_arg)
        parsed == _parse_tools(tools, installed)
        stop == stop_words(a)
    IN  IF parsed.status = "raise"
        THEN [parsed EXCEPT !.value = <<>>]
        ELSE IF stop.status = "raise"
        THEN stop @@ [caught |-> parsed.caught]
        ELSE LET inner == [ agent_args |-> agent_args(self),
                            prompt |-> execution_prompt(a, tools),
                            bind |-> [llm |-> a.llm, stop |-> stop.value],
                            parser_agent |-> self ]
             IN  Ok(<<CrewAgentExecutor(inner, executor_args(self, a, tools, parsed.value))>>)
                 @@ [caught |-> parsed.caught]

\* -------------------------------------------------------------------- state
\* An object reference is held as the object itself: agent_executor is <<>>
\* (None) or <<executor>>, and an executor no field refers to is gone.
VARIABLES
    agents,          \* [Agents -> the fields of each LangchainAgent]
    llms,            \* [LLMs -> the llm objects: has model_name?, callbacks]
    last_used_tool,  \* tools_handler.last_used_tool of the ToolsHandler object
    installed,       \* whether `import crewai_tools` succeeds
    calls,           \* [Calls -> the frame of each execute_task call]
    last_create,     \* arguments and outcome of the latest create_agent_executor
    errors,          \* the exception that left a method of the adapter last
    swallowed,       \* where the exception an except clause handled last came from
    rpm_stops,       \* stop_rpm_counter() calls of the latest execute_task
    next_id,         \* identity of the next object built
    validations, creates, ncalls   \* operation counters

vars == << agents, llms, last_used_tool, installed, calls, last_create,
           errors, swallowed, rpm_stops, next_id, validations, creates, ncalls >>

\* ------------------------------------------------------- set_agent_executor
\* callback handlers: llm.callbacks entries
OldTokenHandler == [cls |-> "TokenCalcHandler", id |-> "earlier"]
OtherHandler == [cls |-> "StdOutCallbackHandler", id |-> "stdout"]
Handlers == {OldTokenHandler, OtherHandler}

\* TokenCalcHandler(self.llm.model_name, self.token_process) (line 69)
TokenCalcHandler(self) == [cls |-> "TokenCalcHandler", id |-> self]

\* (a variant that looks at the first handler only)
HasTokenCalcHandlerFirst(callbacks) ==
    callbacks # <<>> /\ callbacks[1].cls = "TokenCalcHandler"

\* any(isinstance(handler, TokenCalcHandler) for handler in callbacks) (lines 76-78)
HasTokenCalcHandler(callbacks) ==
    \E i \in 1..Len(callbacks) : callbacks[i].cls = "TokenCalcHandler"

\* self.llm after lines 68-79 of the validator run by agent `self`
validated_llm(self, llm) ==
    IF llm.has_model_name
    THEN LET cbs == IF IsList(llm.callbacks) THEN llm.callbacks.items ELSE <<>> IN
         [llm EXCEPT !.callbacks =
             PyList(IF HasTokenCalcHandler(cbs) THEN cbs
                    ELSE Append(cbs, TokenCalcHandler(self)))]
    ELSE llm

\* BaseAgent.set_cache_handler(cache_handler), called at line 84.  Its body is
\* not part of this file: it may or may not build an executor with
\* create_agent_executor(); `build` is that choice.  The result is the
\* outcome of the call, its value being <<executor>> when one was built and
\* <<>> when none was.
set_cache_handler(self, a, inst, build) ==
    IF build
    THEN create_outcome(self, a, PyNone, inst)
    ELSE Ok(<<>>) @@ [caught |-> "none"]


\* An exception that left method `method`
Error(method, out) == [method |-> method, exc |-> out.exc, origin |-> out.origin]

NoError == [method |-> "none", exc |-> "none", origin |-> "none"]

Swallow(out) == IF out.caught = "none" THEN swallowed ELSE out.caught

\* The record of a create_agent_executor call: who called it with what, the
\* agent's fields before the call (but for agent_executor, which the call is
\* there to assign), and how it ended (id 0: nothing built).
Created(self, tools_arg, out) ==
    [ self |-> self, tools |-> tools_arg,
      before |-> [agents[self] EXCEPT !.agent_executor = <<>>],
      status |-> out.status, exc |-> out.exc, origin |-> out.origin,
      id |-> IF out.value # <<>> THEN next_id ELSE 0 ]

\* self.agent_executor = CrewAgentExecutor(...) (line 221): the fields of
\* agent `a` after a create_agent_executor call that ended as `out`
Assigned(a, out) ==
    IF out.value # <<>>
    THEN [a EXCEPT !.agent_executor = <<[out.value[1] EXCEPT !.id = next_id]>>]
    ELSE a

\* The model validator (lines 65-85) run for agent `self`.
set_agent_executor(self) ==
    /\ validations < MaxValidations
    /\ validations' = validations + 1
    /\ llms' = [llms EXCEPT ![agents[self].llm] = validated_llm(self, @)]
    /\ IF agents[self].agent_executor = <<>>
       THEN \E build \in BOOLEAN :
            LET a == [agents[self] EXCEPT !.cache_handler =
                         IF @ = "None" THEN "CacheHandler_" \o self ELSE @]
                out == set_cache_handler(self, a, installed, build)
            IN  /\ agents' = [agents EXCEPT ![self] = Assigned(a, out)]
                /\ next_id' = IF out.value # <<>> THEN next_id + 1 ELSE next_id
                /\ last_create' = IF build THEN Created(self, PyNone, out) ELSE last_create
                /\ errors' = IF out.status = "raise"
                             THEN Error("set_agent_executor", out)
                             ELSE errors
                /\ swallowed' = Swallow(out)
       ELSE UNCHANGED << agents, next_id, last_create, errors, swallowed >>
    /\ UNCHANGED << last_used_tool, installed, calls, rpm_stops, creates, ncalls >>

\* A direct call of create_agent_executor(tools) (lines 158-223) on `self`.
create_agent_executor(self, tools) ==
    /\ creates < MaxCreates
    /\ creates' = creates + 1
    /\ LET out == create_outcome(self, agents[self], tools, installed) IN
       /\ agents' = [agents EXCEPT ![self] = Assigned(@, out)]
       /\ next_id' = IF out.value # <<>> THEN next_id + 1 ELSE next_id
       /\ last_create' = Created(self, tools, out)
       /\ errors' = IF out.status = "raise"
                    THEN Error("create_agent_executor", out)
                    ELSE errors
       /\ swallowed' = Swallow(out)
    /\ UNCHANGED << llms, last_used_tool, installed, calls, rpm_stops,
                    validations, ncalls >>

\* ------------------------------------------------------------- execute_task
Calls == {"c1", "c2"}

\* The frame of a call that is not running.  Besides the locals of
\* execute_task it records what the call did: the tools argument as given,
\* the executor the agent held on entry (leftover) and the one this call
\* built (created), by id; the executor as it stood when invoked together
\* with the dict it was handed (invoked); and the statements executed on
\* shared objects (steps).
IdleFrame ==
    [ pc |-> "idle", self |-> "None", task |-> "None", context |-> "None",
      tools |-> PyNone, task_prompt |-> <<>>, parsed_tools |-> <<>>,
      result |-> <<>>, given |-> PyNone, leftover |-> 0, created |-> 0,
      invoked |-> <<>>, steps |-> <<>> ]

\* The task object handed to the n-th call
TaskOf(n) == "task_" \o ToString(n)

Contexts == {"None", "context"}

\* What ContextualMemory.build_context_for_task may return
Memories == {"", " ", "memory"}

\* bool(s) of an Optional[str] handle
TruthyStr(s) == s # "None" /\ s # ""

\* memory.strip() != "" (line 121)
NonBlank(memory) == memory # "" /\ memory # " "

\* task_prompt as lines 107-122 build it: the task's prompt, wrapped with the
\* context when there is one, with the memory slice appended when the crew
\* has memory and the memory found is not blank
task_prompt(a, task, context, memory) ==
    << IF TruthyStr(context)
       THEN [slice |-> "task_with_context", task |-> task, context |-> context]
       ELSE [slice |-> "task.prompt", task |-> task, context |-> "None"] >>
    \o (IF a.crew # "None" /\ a.crew_memory /\ NonBlank(memory)
        THEN << [slice |-> "memory", task |-> memory, context |-> "None"] >>
        ELSE <<>>)

Self(c) == agents[calls[c].self]

Step(c, pc, name) ==
    [calls[c] EXCEPT !.pc = pc, !.steps = Append(@, name)]

\* The call raises: the exception leaves execute_task
Raised(c, out) ==
    /\ calls' = [calls EXCEPT ![c] = [@ EXCEPT !.pc = "raised"]]
    /\ errors' = Error("execute_task", out)

\* execute_task(task, context, tools) is entered by call c on agent self
Call(c, self, context, tools) ==
    /\ calls[c].pc = "idle"
    /\ ncalls < MaxCalls
    /\ ncalls' = ncalls + 1
    /\ calls' = [calls EXCEPT ![c] =
           [IdleFrame EXCEPT !.pc = "reset", !.self = self,
                             !.task = TaskOf(ncalls + 1),
                             !.context = context, !.tools = tools, !.given = tools,
                             !.leftover = IF agents[self].agent_executor = <<>> THEN 0
                                          ELSE agents[self].agent_executor[1].id]]
    /\ errors' = NoError
    /\ swallowed' = "none"
    /\ rpm_stops' = 0
    /\ UNCHANGED << agents, llms, last_used_tool, installed, last_create,
                    next_id, validations, creates >>

\* lines 103-105
ResetLastUsedTool(c) ==
    /\ calls[c].pc = "reset"
    /\ IF Self(c).tools_handler # "None"
       THEN /\ last_used_tool' = "{}"
            /\ calls' = [calls EXCEPT ![c] = Step(c, "prompt", "reset")]
       ELSE /\ calls' = [calls EXCEPT ![c] = [@ EXCEPT !.pc = "prompt"]]
            /\ UNCHANGED last_used_tool
    /\ UNCHANGED << agents, llms, installed, last_create, errors, swallowed,
                    rpm_stops, next_id, validations, creates, ncalls >>

\* lines 107-122
BuildPrompt(c) ==
    /\ calls[c].pc = "prompt"
    /\ \E memory \in Memories :
         calls' = [calls EXCEPT ![c] =
             [@ EXCEPT !.pc = "parse",
                       !.task_prompt = task_prompt(Self(c), calls[c].task,
                                                    calls[c].context, memory)]]
    /\ UNCHANGED << agents, llms, last_used_tool, installed, last_create, errors,
                    swallowed, rpm_stops, next_id, validations, creates, ncalls >>

\* lines 124-126: tools = tools or self.tools; parsed_tools = _parse_tools(tools or [])
chosen_tools(a, tools) == Or(tools, a.tools)

ParseTools(c) ==
    /\ calls[c].pc = "parse"
    /\ LET tools == chosen_tools(Self(c), calls[c].tools)
           out == _parse_tools(Or(tools, PyList(<<>>)), installed)
       IN  /\ swallowed' = Swallow(out)
           /\ IF out.status = "raise"
              THEN Raised(c, out)
              ELSE /\ calls' = [calls EXCEPT ![c] =
                         [@ EXCEPT !.pc = "create", !.tools = tools,
                                   !.parsed_tools = out.value]]
                   /\ UNCHANGED errors
    /\ UNCHANGED << agents, llms, last_used_tool, installed, last_create,
                    rpm_stops, next_id, validations, creates, ncalls >>

\* line 127: self.create_agent_executor(tools=tools)
CreateExecutor(c) ==
    /\ calls[c].pc = "create"
    /\ LET self == calls[c].self
           out == create_outcome(self, agents[self], calls[c].tools, installed)
       IN  /\ agents' = [agents EXCEPT ![self] = Assigned(@, out)]
           /\ next_id' = IF out.value # <<>> THEN next_id + 1 ELSE next_id
           /\ last_create' = Created(self, calls[c].tools, out)
           /\ swallowed' = Swallow(out)
           /\ IF out.status = "raise"
              THEN Raised(c, out)
              ELSE /\ calls' = [calls EXCEPT ![c] =
                         [Step(c, "set_tools", "create") EXCEPT !.created = next_id]]
                   /\ UNCHANGED errors
    /\ UNCHANGED << llms, last_used_tool, installed, rpm_stops, validations,
                    creates, ncalls >>

\* self.agent_executor, read by a statement of execute_task
Executor(self) == agents[self].agent_executor[1]

\* An attribute of the object self.agent_executor refers to is assigned
WithExecutor(self, ex) == [agents EXCEPT ![self].agent_executor = <<ex>>]

\* line 128: self.agent_executor.tools = parsed_tools
set_tools(ex, parsed_tools) == [ex EXCEPT !.tools = parsed_tools]

\* (a variant that leaves the executor's task alone)
set_task_skipped(ex, task) == ex

\* line 129: self.agent_executor.task = task
set_task(ex, task) == [ex EXCEPT !.task = task]

\* line 131: self.agent_executor.tools_description = render_text_description(parsed_tools)
set_tools_description(ex, parsed_tools) ==
    [ex EXCEPT !.tools_description = render_text_description(parsed_tools)]

\* line 132: self.agent_executor.tools_names = self.__tools_names(parsed_tools)
set_tools_names(ex, parsed_tools) ==
    [ex EXCEPT !.tools_names = __tools_names(parsed_tools)]

\* The dict handed to invoke (lines 135-139)
invoke_input(ex, prompt) ==
    [ input |-> prompt, tool_names |-> ex.tools_names, tools |-> ex.tools_description ]

\* What CrewAgentExecutor.invoke returns when it returns: a dict whose
\* "output" is the executor's answer to its task and input
invoke(ex, input) ==
    [ output |-> [executor |-> ex.id, task |-> ex.task, input |-> input.input] ]

Assign(c, pc, name, ex) ==
    /\ agents' = WithExecutor(calls[c].self, ex)
    /\ calls' = [calls EXCEPT ![c] = Step(c, pc, name)]
    /\ UNCHANGED << llms, last_used_tool, installed, last_create, errors, swallowed,
                    rpm_stops, next_id, validations, creates, ncalls >>

SetTools(c) ==
    /\ calls[c].pc = "set_tools"
    /\ Assign(c, "set_task", "set_tools",
              set_tools(Executor(calls[c].self), calls[c].parsed_tools))

SetTask(c) ==
    /\ calls[c].pc = "set_task"
    /\ Assign(c, "set_tools_description", "set_task",
              set_task(Executor(calls[c].self), calls[c].task))

SetToolsDescription(c) ==
    /\ calls[c].pc = "set_tools_description"
    /\ Assign(c, "set_tools_names", "set_tools_description",
              set_tools_description(Executor(calls[c].self), calls[c].parsed_tools))

SetToolsNames(c) ==
    /\ calls[c].pc = "set_tools_names"
    /\ Assign(c, "invoke", "set_tools_names",
              set_tools_names(Executor(calls[c].self), calls[c].parsed_tools))

\* lines 134-140: the executor self.agent_executor refers to is invoked; it
\* answers or raises, and may use a tool on the way
Invoke(c) ==
    /\ calls[c].pc = "invoke"
    /\ LET self == calls[c].self
           ex == Executor(self)
           input == invoke_input(ex, calls[c].task_prompt)
           seen == [ id |-> ex.id, task |-> ex.task, tools |-> ex.tools, input |-> input ]
       IN  /\ agents' = WithExecutor(self, [ex EXCEPT !.invocations = @ + 1])
           /\ \E used \in {last_used_tool, "tool_call"} :
                last_used_tool' = IF agents[self].tools_handler # "None"
                                  THEN used ELSE last_used_tool
           /\ \E answers \in BOOLEAN :
                IF answers
                THEN /\ calls' = [calls EXCEPT ![c] =
                           [Step(c, "finish", "invoke") EXCEPT
                               !.invoked = <<seen>>,
                               !.result = <<invoke(ex, input).output>>]]
                     /\ UNCHANGED errors
                ELSE /\ calls' = [calls EXCEPT ![c] =
                           [Step(c, "raised", "invoke") EXCEPT !.invoked = <<seen>>]]
                     /\ errors' = Error("execute_task", Raise("ExecutorError", "executor"))
    /\ UNCHANGED << llms, installed, last_create, swallowed, rpm_stops, next_id,
                    validations, creates, ncalls >>

\* bool(n) of an Optional[int]
TruthyInt(n) == n.type = "int" /\ n.v # 0

\* lines 141-143
Finish(c) ==
    /\ calls[c].pc = "finish"
    /\ rpm_stops' = IF TruthyInt(Self(c).max_rpm) THEN rpm_stops + 1 ELSE rpm_stops
    /\ calls' = [calls EXCEPT ![c] = [@ EXCEPT !.pc = "returned"]]
    /\ UNCHANGED << agents, llms, last_used_tool, installed, last_create, errors,
                    swallowed, next_id, validations, creates, ncalls >>

\* The caller takes the result (or the exception): the frame is gone
Return(c) ==
    /\ calls[c].pc \in {"returned", "raised"}
    /\ calls' = [calls EXCEPT ![c] = IdleFrame]
    /\ UNCHANGED << agents, llms, last_used_tool, installed, last_create, errors,
                    swallowed, rpm_stops, next_id, validations, creates, ncalls >>

\* ------------------------------------------------------------ specifications
NoCreate ==
    [ self |-> "None", tools |-> PyNone, before |-> DefaultAgent("a1"),
      status |-> "none", exc |-> "none", origin |-> "none", id |-> 0 ]

InitRest ==
    /\ last_used_tool = "{}"
    /\ calls = [c \in Calls |-> IdleFrame]
    /\ last_create = NoCreate
    /\ errors = NoError
    /\ swallowed = "none"
    /\ rpm_stops = 0
    /\ next_id = 1
    /\ validations = 0
    /\ creates = 0
    /\ ncalls = 0

DefaultLLM == [has_model_name |-> TRUE, callbacks |-> PyNone]

\* --- the validator, run for agents that may share an llm
CallbackValues ==
    {PyNone, PyTuple(<<OldTokenHandler>>)}
    \cup {PyList(cbs) : cbs \in SeqsUpTo(Handlers, MaxCallbacks)}

LLMObjects == [has_model_name : BOOLEAN, callbacks : CallbackValues]

InitValidator ==
    /\ \E l \in [Agents -> LLMs] :
         agents = [id \in Agents |-> [DefaultAgent(id) EXCEPT !.llm = l[id]]]
    /\ llms \in [LLMs -> LLMObjects]
    /\ installed = TRUE
    /\ InitRest

NextValidator == \E self \in Agents : set_agent_executor(self)

SpecValidator == InitValidator /\ [][NextValidator]_vars

\* --- create_agent_executor on an agent whose configuration fields vary
Configured(id) ==
    { [DefaultAgent(id) EXCEPT
          !.llm = llm, !.function_calling_llm = fllm, !.i18n = i18n,
          !.crew = crew, !.verbose = verbose, !.max_iter = max_iter,
          !.max_execution_time = met, !.step_callback = step,
          !.tools_handler = th, !.callbacks = cbs, !.tools = PyList(<<PlainTool>>)] :
      llm \in LLMs, fllm \in {"None", "llm2"}, i18n \in {"i18n_en", "i18n_fr"},
      crew \in {"None", "crew"}, verbose \in BOOLEAN, max_iter \in {15, 25},
      met \in {NoneInt, PyInt(25)}, step \in {"None", "step_callback"},
      th \in {"None", "tools_handler"}, cbs \in {"None", "callbacks"} }

ForwardToolArgs == {PyNone, PyList(<<CrewTool>>)}

InitForward ==
    /\ \E a \in Configured("a1") :
         agents = [id \in Agents |-> IF id = "a1" THEN a ELSE DefaultAgent(id)]
    /\ llms = [l \in LLMs |-> DefaultLLM]
    /\ installed = TRUE
    /\ InitRest

NextForward == \E self \in Agents, tools \in ForwardToolArgs : create_agent_executor(self, tools)

SpecForward == InitForward /\ [][NextForward]_vars

\* --- create_agent_executor over every list of tools whose conversion does
\* not abort the call
ListedTools == Tools \ {CrewToolBad}
ToolLists == {PyList(ts) : ts \in SeqsUpTo(ListedTools, MaxTools)}
ToolArgs == {PyNone} \cup ToolLists

ResponseTemplates ==
    { PyNone,
      PyStr(<<"Answer:">>),
      PyStr(<<"Answer:", Marker, " ", "<end>", " ">>) }

OwnTools == {PyNone, PyList(<<>>), PyList(<<PlainTool>>), PyList(<<CrewTool, PlainTool>>)}

InitTools ==
    /\ \E ts \in OwnTools, rt \in ResponseTemplates, rpm \in {"None", "rpm_controller"} :
         agents = [id \in Agents |->
                      [DefaultAgent(id) EXCEPT !.tools = ts, !.response_template = rt,
                                               !.rpm_controller = rpm]]
    /\ llms = [l \in LLMs |-> DefaultLLM]
    /\ installed \in BOOLEAN
    /\ InitRest

NextTools == \E tools \in ToolArgs : create_agent_executor("a1", tools)

SpecTools == InitTools /\ [][NextTools]_vars

\* --- execute_task on agent "a1"
ExecAgents ==
    { [DefaultAgent("a1") EXCEPT
          !.tools = ts, !.tools_handler = th,
          !.crew = crew[1], !.crew_memory = crew[2],
          !.max_rpm = rpm[1], !.rpm_controller = rpm[2]] :
      ts \in {PyNone, PyList(<<>>), PyList(<<CrewTool, PlainTool>>)},
      th \in {"None", "tools_handler"},
      crew \in {<<"None", FALSE>>, <<"crew", TRUE>>},
      rpm \in {<<NoneInt, "None">>, <<PyInt(10), "rpm_controller">>} }

\* The tool lists handed to execute_task
ExecToolArgs ==
    { PyNone, PyList(<<>>), PyList(<<PlainTool>>), PyList(<<PlainTool, CrewTool>>),
      PyList(<<PlainTool, CrewToolLazy>>), PyList(<<CrewToolBad>>) }

InitExec ==
    /\ \E a \in ExecAgents :
         agents = [id \in Agents |-> IF id = "a1" THEN a ELSE DefaultAgent(id)]
    /\ llms = [l \in LLMs |-> DefaultLLM]
    /\ installed \in BOOLEAN
    /\ InitRest

\* The statements of a running call
Statement(c) ==
    \/ ResetLastUsedTool(c)
    \/ BuildPrompt(c)
    \/ ParseTools(c)
    \/ CreateExecutor(c)
    \/ SetTools(c)
    \/ SetTask(c)
    \/ SetToolsDescription(c)
    \/ SetToolsNames(c)
    \/ Invoke(c)
    \/ Finish(c)
    \/ Return(c)

\* Calls one after the other: a call is entered when no other is running
NextSeq ==
    \E c \in Calls :
       \/ /\ \A d \in Calls : calls[d].pc = "idle"
          /\ \E context \in Contexts, tools \in ExecToolArgs : Call(c, "a1", context, tools)
       \/ Statement(c)

SpecSeq == InitExec /\ [][NextSeq]_vars

\* Overlapping calls: the statements of the running calls interleave
ConcToolArgs == {PyNone, PyList(<<CrewTool>>), PyList(<<PlainTool, CrewToolLazy>>)}

InitConc ==
    /\ \E ts \in {PyList(<<>>), PyList(<<PlainTool>>)} :
         agents = [id \in Agents |-> [DefaultAgent(id) EXCEPT !.tools = ts]]
    /\ llms = [l \in LLMs |-> DefaultLLM]
    /\ installed = TRUE
    /\ InitRest

NextConc ==
    \E c \in Calls :
       \/ \E tools \in ConcToolArgs : Call(c, "a1", "None", tools)
       \/ Statement(c)

SpecConc == InitConc /\ [][NextConc]_vars

\* ------------------------------------------------------------------- claims
CountTokenCalcHandlers(cbs) ==
    Cardinality({i \in 1..Len(cbs) : cbs[i].cls = "TokenCalcHandler"})

IsPrefix(s, t) == Len(s) <= Len(t) /\ SubSeq(t, 1, Len(s)) = s

\* C4: a run of the set_agent_executor validator on an llm that has a
\* model_name leaves llm.callbacks a list holding a TokenCalcHandler; it
\* appends none when the list already holds one, leaves exactly one in a
\* list that held none, and keeps every handler of a list where and in the
\* order it was.
C4_TokenHandlerOnce ==
    [][ \A self \in Agents :
          set_agent_executor(self) /\ llms[agents[self].llm].has_model_name =>
            LET before == llms[agents[self].llm].callbacks
                after == llms'[agents[self].llm].callbacks
            IN  /\ after.kind = "list"
                /\ CountTokenCalcHandlers(after.items) >= 1
                /\ before.kind = "list" =>
                     /\ IsPrefix(before.items, after.items)
                     /\ CountTokenCalcHandlers(before.items) >= 1 => after = before
                     /\ CountTokenCalcHandlers(before.items) = 0 =>
                          CountTokenCalcHandlers(after.items) = 1 ]_vars

\* Both agents share an llm with a model_name, the validator has run for
\* each, and the llm's list keeps an earlier handler followed by the one
\* TokenCalcHandler a validator appended.
C4_Witness ==
    /\ agents["a1"].llm = agents["a2"].llm
    /\ \A id \in Agents : agents[id].cache_handler # "None"
    /\ LET llm == llms[agents["a1"].llm] IN
       /\ llm.has_model_name
       /\ llm.callbacks.kind = "list"
       /\ Len(llm.callbacks.items) = 2
       /\ llm.callbacks.items[1] = OtherHandler
       /\ llm.callbacks.items[2].id \in Agents

\* The arguments the executor built by the latest create_agent_executor was
\* constructed with
BuiltArgs == agents[last_create.self].agent_executor[1].args

\* C1: the executor create_agent_executor built was constructed with llm,
\* max_iterations, max_execution_time, step_callback, tools_handler,
\* function_calling_llm, callbacks, verbose, crew and i18n equal to the
\* agent's llm, max_iter, max_execution_time, step_callback, tools_handler,
\* function_calling_llm, callbacks, verbose, crew and i18n, and with
\* crew_agent the agent itself; the call left those fields of the agent as
\* they were.
C1_FieldsForwarded ==
    last_create.status = "ok" =>
       LET a == agents[last_create.self] IN
       /\ a.agent_executor[1].id = last_create.id
       /\ BuiltArgs.llm = a.llm
       /\ BuiltArgs.max_iterations = a.max_iter
       /\ BuiltArgs.max_execution_time = a.max_execution_time
       /\ BuiltArgs.step_callback = a.step_callback
       /\ BuiltArgs.tools_handler = a.tools_handler
       /\ BuiltArgs.function_calling_llm = a.function_calling_llm
       /\ BuiltArgs.callbacks = a.callbacks
       /\ BuiltArgs.verbose = a.verbose
       /\ BuiltArgs.crew = a.crew
       /\ BuiltArgs.i18n = a.i18n
       /\ BuiltArgs.crew_agent = last_create.self
       /\ [a EXCEPT !.agent_executor = <<>>] = last_create.before

\* A second executor was built for an agent whose forwarded fields differ
\* from the defaults, its llm and function-calling llm being different.
C1_Witness ==
    /\ last_create.status = "ok"
    /\ last_create.self = "a1"
    /\ last_create.id = 2
    /\ LET a == agents["a1"] IN
       /\ a.llm = "llm2" /\ a.function_calling_llm = "None"
       /\ a.i18n = "i18n_fr" /\ a.crew = "crew" /\ a.verbose
       /\ a.max_iter = 15 /\ a.max_execution_time = PyInt(25)
       /\ a.step_callback = "step_callback" /\ a.tools_handler = "None"
       /\ a.callbacks = "callbacks"

\* The tool list create_agent_executor works on, as the code chooses it: the
\* list handed over when it is not empty, the agent's own otherwise.
WorkingList ==
    IF Truthy(last_create.tools)
    THEN last_create.tools
    ELSE last_create.before.tools

\* C2 as stated: the executor's `tools` and `original_tools` arguments are
\* the list handed to create_agent_executor (the agent's own when none is
\* handed), element for element and in the same order.
C2_ToolsVerbatim ==
    last_create.status = "ok" =>
       LET handed == IF last_create.tools.kind = "None"
                     THEN last_create.before.tools
                     ELSE last_create.tools
       IN  /\ BuiltArgs.original_tools = handed
           /\ BuiltArgs.tools = handed.items

\* C2 as amended: original_tools is the working list itself (the list handed
\* over when it is not empty, the agent's own otherwise).  tools is that list
\* element for element when it holds no crewai_tools BaseTool or crewai_tools
\* cannot be imported.  When every to_langchain() returns, tools has one
\* entry per element, in order: the conversion of a crewai_tools BaseTool,
\* the element itself otherwise.  In every case tools ends with one entry per
\* element, in order, each the element or its conversion, the elements that
\* are no crewai_tools BaseTool unchanged.
C2_ToolsForwarded ==
    last_create.status = "ok" =>
       LET list == WorkingList.items
           tools == BuiltArgs.tools
           at(i) == tools[Len(tools) - Len(list) + i]
       IN  /\ BuiltArgs.original_tools = WorkingList
           /\ (~installed \/ \A i \in 1..Len(list) : ~IsCrewAITool(list[i])) =>
                 tools = list
           /\ (installed /\ \A i \in 1..Len(list) : list[i].conv \in {"ok", "n/a"}) =>
                 /\ Len(tools) = Len(list)
                 /\ \A i \in 1..Len(list) :
                      tools[i] = IF IsCrewAITool(list[i]) THEN to_langchain(list[i])
                                 ELSE list[i]
           /\ Len(tools) >= Len(list)
           /\ \A i \in 1..Len(list) :
                IF IsCrewAITool(list[i])
                THEN at(i) \in {list[i], to_langchain(list[i])}
                ELSE at(i) = list[i]

\* An executor was built from an empty list handed over, so from the
\* agent's own list, whose crewai_tools BaseTool went in converted.
C2_Witness ==
    /\ last_create.status = "ok"
    /\ installed
    /\ last_create.tools = PyList(<<>>)
    /\ last_create.before.tools = PyList(<<CrewTool, PlainTool>>)
    /\ BuiltArgs.original_tools = PyList(<<CrewTool, PlainTool>>)
    /\ BuiltArgs.tools = <<to_langchain(CrewTool), PlainTool>>

\* C3 as stated: an exception that leaves a method of the adapter was raised
\* by a collaborator, never by the adapter's own code, and the adapter
\* handles no exception a collaborator raised.
C3_NoErrorBehaviour ==
    /\ errors.origin # "adapter"
    /\ swallowed # "tool"

\* The statements on shared objects, in the order of the code
Order(a) ==
    (IF a.tools_handler # "None" THEN <<"reset">> ELSE <<>>)
    \o << "create", "set_tools", "set_task", "set_tools_description",
          "set_tools_names", "invoke" >>

\* C5: a call of execute_task resets last_used_tool (when the agent has a
\* tools handler), builds an executor, assigns its tools, task,
\* tools_description and tools_names and invokes it, in that order.  The
\* executor invoked is the one this call built, not the one the agent held
\* on entry; it is invoked once, with the keys input, tool_names and tools,
\* while its task is the task of this call; the call returns the output of
\* that invoke.  (Calls one after the other.)
C5_StepOrder ==
    \A c \in Calls :
       LET f == calls[c] IN
       f.pc # "idle" =>
         /\ IsPrefix(f.steps, Order(agents[f.self]))
         /\ f.pc \in {"finish", "returned"} => f.steps = Order(agents[f.self])
         /\ (f.pc \in {"prompt", "parse", "create", "set_tools", "set_task",
                       "set_tools_description", "set_tools_names", "invoke"}
             /\ agents[f.self].tools_handler # "None") => last_used_tool = "{}"
         /\ f.created # 0 => f.created # f.leftover
         /\ f.invoked # <<>> =>
              /\ f.invoked[1].id = f.created
              /\ f.invoked[1].task = f.task
              /\ f.invoked[1].input.input = f.task_prompt
              /\ DOMAIN f.invoked[1].input = {"input", "tool_names", "tools"}
              /\ Executor(f.self).id = f.created
              /\ Executor(f.self).invocations = 1
         /\ f.pc = "returned" =>
              f.result = << [executor |-> f.created, task |-> f.task,
                             input |-> f.task_prompt] >>

\* The second call on an agent with a tools handler has returned: the agent
\* held the first call's executor on entry, and a tool was used since.
C5_Witness ==
    \E c \in Calls :
       /\ calls[c].pc = "returned"
       /\ calls[c].leftover = 1
       /\ calls[c].created = 2
       /\ calls[c].task = TaskOf(2)
       /\ agents[calls[c].self].tools_handler # "None"
       /\ last_used_tool = "tool_call"

\* The tools execute_task is to use, as the claim has it
ClaimedTools(f) ==
    IF Truthy(f.given) THEN f.given
    ELSE IF Truthy(agents[f.self].tools) THEN agents[f.self].tools
    ELSE PyList(<<>>)

\* C6 as stated: the executor is invoked with the parse of the list handed
\* to execute_task when that list is not empty, and of the agent's own tools
\* otherwise; when the agent's own tools are None or empty too, the executor
\* is built and invoked with no tools and an empty tool_names.
C6_ToolChoice ==
    \A c \in Calls :
       LET f == calls[c]
           parse == _parse_tools(ClaimedTools(f), installed)
       IN  /\ f.invoked # <<>> =>
                /\ f.invoked[1].tools = parse.value
                /\ f.invoked[1].input.tool_names = __tools_names(parse.value)
                /\ f.invoked[1].input.tools = render_text_description(parse.value)
           /\ (f.pc = "raised" /\ ClaimedTools(f) = PyList(<<>>)) => f.invoked # <<>>

\* C7 as stated: however the statements of two calls on one agent
\* interleave, each call invokes the executor it built, with its own task,
\* parsed tools and tool names, and returns the output of its own invoke.
C7_NoRace ==
    \A c \in Calls :
       LET f == calls[c] IN
       /\ f.invoked # <<>> =>
            /\ f.invoked[1].id = f.created
            /\ f.invoked[1].task = f.task
            /\ f.invoked[1].tools = f.parsed_tools
            /\ f.invoked[1].input.tool_names = __tools_names(f.parsed_tools)
       /\ f.pc = "returned" =>
            /\ f.result[1].executor = f.created
            /\ f.result[1].task = f.task

====
